---- MODULE Spec2Model ----
(***************************************************************************)
(* Vencord Desktop main window controller (src/main/mainWindow.ts):        *)
(* creation of the single BrowserWindow, the tray icon and its context     *)
(* menu, the application menu, persistence of the window geometry, and     *)
(* the reaction of the live window to settings changes.                    *)
(*                                                                         *)
(* A settings store is a partial function from option names to values: a   *)
(* key outside its DOMAIN is an absent (undefined) option.                 *)
(***************************************************************************)
EXTENDS Integers, Sequences, FiniteSets, TLC

\* ------------------------------------------------------------------ bounds
\* most Tray objects ever constructed in one run
MaxTrays == 3
\* most update downloads in flight at once
MaxPending == 2
\* window sizes are sampled MaxDelta below, at and MaxDelta above the minimum
MaxDelta == 1
\* window positions are sampled at 0 and at MaxPos on each axis
MaxPos == 1

\* ------------------------------------------------- constants of ./constants
\* mainWindow.ts imports these four names; their values are set in
\* ./constants, and nothing below depends on more than MIN < DEFAULT
MIN_WIDTH == 940
MIN_HEIGHT == 500
DEFAULT_WIDTH == 1280
DEFAULT_HEIGHT == 720

Widths == {MIN_WIDTH - MaxDelta, MIN_WIDTH, MIN_WIDTH + MaxDelta}
Heights == {MIN_HEIGHT - MaxDelta, MIN_HEIGHT, MIN_HEIGHT + MaxDelta}
Positions == {0, MaxPos}

\* -------------------------------------------------------------- variables
VARIABLES
    Settings,         \* Settings.store
    VencordSettings,  \* VencordSettings.store
    platform,         \* process.platform
    isQuitting,       \* module-level quit flag
    tray,             \* module-level tray reference: index into trays, 0 = undefined
    trays,            \* every Tray constructed so far, with its context menu
    winState,         \* "none" before createMainWindow, then "alive", then "closed"
    visible,          \* win.isVisible()
    hiddenByClose,    \* the window is hidden and it was the close handler that hid it
    bounds,           \* win.getBounds()
    minSize,          \* the window's minimum size <<w, h>>
    isMaximized,      \* win.isMaximized()
    isMinimized,      \* win.isMinimized()
    winOptions,       \* options handed to the BrowserWindow constructor
    title,            \* window title
    titleLocked,      \* a page-title-updated listener calling preventDefault exists
    vibrancy,         \* "sidebar" or "none"
    backgroundColor,  \* window background colour
    menu,             \* items of the application menu's first submenu
    loadedURL,        \* URL passed to win.loadURL
    pending,          \* update downloads awaited by a click handler
    relaunchRequested,\* app.relaunch() has been called
    quitCalled,       \* app.quit() has been called
    last              \* what the latest step did: operation, window events
                      \* dispatched, settings keys written, app calls made

storeVars == <<Settings, VencordSettings, platform>>
trayVars == <<tray, trays>>
geomVars == <<bounds, minSize, isMaximized, isMinimized>>
chromeVars == <<winOptions, title, titleLocked, vibrancy, backgroundColor, menu, loadedURL>>
appVars == <<pending, relaunchRequested, quitCalled>>
vars == <<storeVars, isQuitting, trayVars, winState, visible, hiddenByClose, geomVars, chromeVars, appVars, last>>

\* ------------------------------------------------------- settings helpers
Has(store, key) == key \in DOMAIN store

\* JavaScript truthiness of a boolean option: an absent option is falsy
Truthy(store, key) == IF Has(store, key) THEN store[key] = TRUE ELSE FALSE

\* store.key === false
IsFalse(store, key) == IF Has(store, key) THEN store[key] = FALSE ELSE FALSE

\* store.key ?? dflt
OrDefault(store, key, dflt) == IF Has(store, key) THEN store[key] ELSE dflt

\* an assignment store.key = value
Put(store, key, value) == (key :> value) @@ store

\* the store notifies a key's listeners when an assignment changes its value
Changed(store, key, value) == IF Has(store, key) THEN store[key] # value ELSE TRUE

\* store.key is present and equals value
Holds(store, key, value) == IF Has(store, key) THEN store[key] = value ELSE FALSE

Max(a, b) == IF a >= b THEN a ELSE b

Step(op, events, writes, calls, prevented) ==
    [op |-> op, events |-> events, writes |-> writes, calls |-> calls,
     prevented |-> prevented]

NoMinSize == <<0, 0>>
NoBounds == [x |-> 0, y |-> 0, width |-> 0, height |-> 0]

DefaultTitle == "Vencord Desktop"
OpaqueBackground == "#ffffff"

Booleans == {TRUE, FALSE}

\* every store holding boolean values for some of the given keys
Stores(keys) == UNION {[present -> Booleans] : present \in SUBSET keys}

\* ------------------------------------------------------------ tray manager
\* a Tray with its context menu: item 0 ("Open") is built with enabled: false
NewTray == [destroyed |-> FALSE, openEnabled |-> FALSE]

LiveTrays == {i \in 1..Len(trays) : ~trays[i].destroyed}

\* the "show" listeners registered by every initTray call so far
onShow(ts) == [i \in 1..Len(ts) |-> [ts[i] EXCEPT !.openEnabled = FALSE]]

\* mutation: the hide listener copies the show listener's assignment
onHide_disables(ts) == [i \in 1..Len(ts) |-> [ts[i] EXCEPT !.openEnabled = FALSE]]

\* the "hide" listeners registered by every initTray call so far
onHide(ts) == [i \in 1..Len(ts) |-> [ts[i] EXCEPT !.openEnabled = TRUE]]

\* initTray(win): a new Tray replaces the module's reference
initTray ==
    /\ trays' = Append(trays, NewTray)
    /\ tray' = Len(trays) + 1

\* tray?.destroy()
destroyTray ==
    /\ trays' = IF tray = 0 THEN trays ELSE [trays EXCEPT ![tray].destroyed = TRUE]
    /\ tray' = tray

\* win.show(): the toolkit dispatches "show" when the window becomes visible;
\* whether it also does so for a window already visible depends on the platform
winShow(op) ==
    \E again \in Booleans :
        LET fired == ~visible \/ again IN
        /\ visible' = TRUE
        /\ hiddenByClose' = FALSE
        /\ trays' = IF fired THEN onShow(trays) ELSE trays
        /\ tray' = tray
        /\ last' = Step(op, IF fired THEN {"show"} ELSE {}, <<>>, <<>>, FALSE)

\* ------------------------------------------------------------- application
\* mutation: the handler flips the flag instead of setting it
beforeQuit_toggles == isQuitting' = ~isQuitting

\* app.on("before-quit")
beforeQuit == isQuitting' = TRUE

\* app.quit(): the toolkit dispatches before-quit before closing the windows
appQuit ==
    /\ beforeQuit
    /\ quitCalled' = TRUE

\* app.relaunch(); app.quit();
relaunchAndQuit ==
    /\ relaunchRequested' = TRUE
    /\ appQuit

\* ---------------------------------------------------------- window factory
\* mutation: each coordinate is applied on its own
getWindowBoundsOptions_perAxis ==
    LET wb == OrDefault(Settings, "windowBounds", <<>>)
        size == [width |-> OrDefault(wb, "width", DEFAULT_WIDTH),
                 height |-> OrDefault(wb, "height", DEFAULT_HEIGHT)]
        posX == IF Has(wb, "x") THEN [x |-> wb["x"]] ELSE <<>>
        posY == IF Has(wb, "y") THEN [y |-> wb["y"]] ELSE <<>>
        min == IF ~Truthy(Settings, "disableMinSize")
               THEN [minWidth |-> MIN_WIDTH, minHeight |-> MIN_HEIGHT]
               ELSE <<>>
    IN min @@ posX @@ posY @@ size

\* getWindowBoundsOptions()
getWindowBoundsOptions ==
    LET wb == OrDefault(Settings, "windowBounds", <<>>)
        size == [width |-> OrDefault(wb, "width", DEFAULT_WIDTH),
                 height |-> OrDefault(wb, "height", DEFAULT_HEIGHT)]
        pos == IF Has(wb, "x") /\ Has(wb, "y")
               THEN [x |-> wb["x"], y |-> wb["y"]]
               ELSE <<>>
        min == IF ~Truthy(Settings, "disableMinSize")
               THEN [minWidth |-> MIN_WIDTH, minHeight |-> MIN_HEIGHT]
               ELSE <<>>
    IN min @@ pos @@ size

\* the options object of new BrowserWindow({...}): later spreads win
windowOptions ==
    LET base == [show |-> FALSE, frame |-> ~Truthy(VencordSettings, "frameless")]
        titled == IF Truthy(Settings, "staticTitle") THEN [title |-> "Vencord"] ELSE <<>>
        translucent == IF Truthy(VencordSettings, "macosTranslucency")
                       THEN [vibrancy |-> "sidebar", backgroundColor |-> "#ffffff00"]
                       ELSE <<>>
    IN getWindowBoundsOptions @@ translucent @@ titled @@ base

\* mutation: the accelerator follows winCtrlQ on every platform
menuItems_settingEverywhere ==
    LET isWindows == platform = "win32"
        wantCtrlQ == Truthy(VencordSettings, "winCtrlQ")
    IN << [label |-> "About Vencord Desktop", accelerator |-> "none", visible |-> TRUE],
          [label |-> "Force Update Vencord", accelerator |-> "none", visible |-> TRUE],
          [label |-> "Relaunch", accelerator |-> "CmdOrCtrl+Shift+R", visible |-> TRUE],
          [label |-> "Quit", accelerator |-> IF wantCtrlQ THEN "CmdOrCtrl+Q" ELSE "none",
           visible |-> ~isWindows],
          [label |-> "Quit", accelerator |-> IF isWindows THEN "Alt+F4" ELSE "none",
           visible |-> isWindows],
          [label |-> "Zoom in (hidden, hack for Qwertz and others)",
           accelerator |-> "CmdOrCtrl+=", visible |-> FALSE],
          [label |-> "Quit", accelerator |-> "CmdOrCtrl+Q", visible |-> FALSE],
          [label |-> "Quick Switcher", accelerator |-> "CmdOrCtrl+T", visible |-> TRUE] >>

\* initMenuBar(win): the items of the app menu's submenu
menuItems ==
    LET isWindows == platform = "win32"
        wantCtrlQ == ~isWindows \/ Truthy(VencordSettings, "winCtrlQ")
    IN << [label |-> "About Vencord Desktop", accelerator |-> "none", visible |-> TRUE],
          [label |-> "Force Update Vencord", accelerator |-> "none", visible |-> TRUE],
          [label |-> "Relaunch", accelerator |-> "CmdOrCtrl+Shift+R", visible |-> TRUE],
          [label |-> "Quit", accelerator |-> IF wantCtrlQ THEN "CmdOrCtrl+Q" ELSE "none",
           visible |-> ~isWindows],
          [label |-> "Quit", accelerator |-> IF isWindows THEN "Alt+F4" ELSE "none",
           visible |-> isWindows],
          [label |-> "Zoom in (hidden, hack for Qwertz and others)",
           accelerator |-> "CmdOrCtrl+=", visible |-> FALSE],
          [label |-> "Quit", accelerator |-> "CmdOrCtrl+Q", visible |-> FALSE],
          [label |-> "Quick Switcher", accelerator |-> "CmdOrCtrl+T", visible |-> TRUE] >>

\* mutation: every branch name that is set becomes a subdomain
subdomain_anyBranch ==
    IF Has(Settings, "discordBranch") THEN Settings["discordBranch"] \o "." ELSE ""

\* the subdomain chosen from Settings.store.discordBranch
subdomain ==
    LET branch == OrDefault(Settings, "discordBranch", "undefined")
    IN IF branch = "canary" \/ branch = "ptb" THEN branch \o "." ELSE ""

\* createMainWindow()
CreateMainWindow ==
    /\ winState = "none"
    /\ winState' = "alive"
    /\ winOptions' = windowOptions
    /\ visible' = windowOptions["show"]
    /\ hiddenByClose' = FALSE
    /\ \E px \in Positions, py \in Positions :
          bounds' = [x |-> OrDefault(windowOptions, "x", px),
                     y |-> OrDefault(windowOptions, "y", py),
                     width |-> windowOptions["width"],
                     height |-> windowOptions["height"]]
    /\ minSize' = IF Has(windowOptions, "minWidth")
                  THEN <<windowOptions["minWidth"], windowOptions["minHeight"]>>
                  ELSE NoMinSize
    /\ isMaximized' = FALSE
    /\ isMinimized' = FALSE
    /\ title' = OrDefault(windowOptions, "title", DefaultTitle)
    /\ titleLocked' = Truthy(Settings, "staticTitle")
    /\ vibrancy' = OrDefault(windowOptions, "vibrancy", "none")
    /\ backgroundColor' = OrDefault(windowOptions, "backgroundColor", OpaqueBackground)
    /\ IF OrDefault(Settings, "tray", TRUE) THEN initTray ELSE UNCHANGED trayVars
    /\ menu' = menuItems
    /\ loadedURL' = "https://" \o subdomain \o "discord.com/app"
    /\ last' = Step("createMainWindow", {}, <<>>, <<>>, FALSE)
    /\ UNCHANGED <<storeVars, isQuitting, appVars>>

Alive == winState = "alive"

\* ----------------------------------------------------------- close policy
\* mutation: the early return forgets the tray setting
closeProceeds_ignoresTray == isQuitting \/ IsFalse(Settings, "minimizeToTray")

\* mutation: the early return forgets the quit flag
closeProceeds_ignoresQuit ==
    IsFalse(Settings, "minimizeToTray") \/ IsFalse(Settings, "tray")

\* the close handler's early return: the close is left to proceed
closeProceeds ==
    isQuitting \/ IsFalse(Settings, "minimizeToTray") \/ IsFalse(Settings, "tray")

\* win.hide(): "hide" is dispatched when the window stops being visible;
\* whether it also is for a window already hidden depends on the platform
winHide(op, prevented) ==
    \E again \in Booleans :
        LET fired == visible \/ again IN
        /\ visible' = FALSE
        /\ hiddenByClose' = (op = "close" /\ (visible \/ hiddenByClose))
        /\ trays' = IF fired THEN onHide(trays) ELSE trays
        /\ tray' = tray
        /\ last' = Step(op, IF fired THEN {"hide"} ELSE {}, <<>>, <<>>, prevented)

\* win.on("close"): a close request reaches the window
CloseRequest ==
    /\ Alive
    /\ IF closeProceeds
       THEN /\ winState' = "closed"
            /\ last' = Step("close", {}, <<>>, <<>>, FALSE)
            /\ UNCHANGED <<visible, hiddenByClose, trayVars>>
       ELSE /\ winState' = winState
            /\ winHide("close", TRUE)
    /\ UNCHANGED <<storeVars, isQuitting, geomVars, chromeVars, appVars>>

\* -------------------------------------------------------- settings reactor
\* Settings.store.tray = enable, with the "tray" change listener
SetTray(enable) ==
    /\ Alive
    /\ Changed(Settings, "tray", enable)
    /\ enable => Len(trays) < MaxTrays
    /\ Settings' = Put(Settings, "tray", enable)
    /\ IF enable THEN initTray ELSE destroyTray
    /\ last' = Step("set:tray", {}, <<"tray">>, <<>>, FALSE)
    /\ UNCHANGED <<VencordSettings, platform, isQuitting, winState, visible, hiddenByClose,
                   geomVars, chromeVars, appVars>>

\* Settings.store.minimizeToTray = value: no listener in this module
SetMinimizeToTray(value) ==
    /\ Alive
    /\ Changed(Settings, "minimizeToTray", value)
    /\ Settings' = Put(Settings, "minimizeToTray", value)
    /\ last' = Step("set:minimizeToTray", {}, <<"minimizeToTray">>, <<>>, FALSE)
    /\ UNCHANGED <<VencordSettings, platform, isQuitting, trayVars, winState, visible, hiddenByClose,
                   geomVars, chromeVars, appVars>>

\* ------------------------------------------------------ window visibility
\* another part of the application shows the exported mainWin
ShowWindow ==
    /\ Alive
    /\ winShow("show")
    /\ UNCHANGED <<storeVars, isQuitting, winState, geomVars, chromeVars, appVars>>

\* tray.on("click")
TrayClick ==
    /\ Alive
    /\ LiveTrays # {}
    /\ winShow("tray:click")
    /\ UNCHANGED <<storeVars, isQuitting, winState, geomVars, chromeVars, appVars>>

\* tray menu "Open": a disabled item cannot be clicked
TrayOpenClick ==
    /\ Alive
    /\ \E i \in LiveTrays : trays[i].openEnabled
    /\ winShow("tray:Open")
    /\ UNCHANGED <<storeVars, isQuitting, winState, geomVars, chromeVars, appVars>>

\* ------------------------------------------------- update, relaunch, quit
\* mutation: the await is missing, relaunch and quit follow the click at once
startUpdate_notAwaited(op) ==
    /\ pending < MaxPending
    /\ pending' = pending + 1
    /\ relaunchAndQuit
    /\ last' = Step(op, {"before-quit"}, <<>>, <<"relaunch", "quit">>, FALSE)
    /\ UNCHANGED <<storeVars, trayVars, winState, visible, hiddenByClose, geomVars, chromeVars>>

\* the click handler up to its await: downloadVencordFiles() is started
startUpdate(op) ==
    /\ pending < MaxPending
    /\ pending' = pending + 1
    /\ last' = Step(op, {}, <<>>, <<>>, FALSE)
    /\ UNCHANGED <<storeVars, isQuitting, trayVars, winState, visible, hiddenByClose, geomVars,
                   chromeVars, relaunchRequested, quitCalled>>

\* tray menu "Update Vencord"
TrayUpdateClick ==
    /\ Alive
    /\ LiveTrays # {}
    /\ startUpdate("tray:Update")

\* app menu "Force Update Vencord"
MenuUpdateClick ==
    /\ Alive
    /\ startUpdate("menu:Update")

\* the awaited download resolves: the handler resumes after the await
DownloadResolve ==
    /\ Alive
    /\ pending > 0
    /\ pending' = pending - 1
    /\ relaunchAndQuit
    /\ last' = Step("update:resolved", {"before-quit"}, <<>>, <<"relaunch", "quit">>, FALSE)
    /\ UNCHANGED <<storeVars, trayVars, winState, visible, hiddenByClose, geomVars, chromeVars>>

\* mutation: the rejection is swallowed and the handler carries on
DownloadReject_swallowed ==
    /\ Alive
    /\ pending > 0
    /\ pending' = pending - 1
    /\ relaunchAndQuit
    /\ last' = Step("update:rejected", {"before-quit"}, <<>>, <<"relaunch", "quit">>, FALSE)
    /\ UNCHANGED <<storeVars, trayVars, winState, visible, hiddenByClose, geomVars, chromeVars>>

\* the awaited download rejects: the await throws and the handler ends there
DownloadReject ==
    /\ Alive
    /\ pending > 0
    /\ pending' = pending - 1
    /\ last' = Step("update:rejected", {}, <<>>, <<>>, FALSE)
    /\ UNCHANGED <<storeVars, isQuitting, trayVars, winState, visible, hiddenByClose, geomVars,
                   chromeVars, relaunchRequested, quitCalled>>

relaunchClick(op) ==
    /\ relaunchAndQuit
    /\ last' = Step(op, {"before-quit"}, <<>>, <<"relaunch", "quit">>, FALSE)
    /\ UNCHANGED <<storeVars, trayVars, winState, visible, hiddenByClose, geomVars, chromeVars, pending>>

\* tray menu "Relaunch"
TrayRelaunchClick ==
    /\ Alive
    /\ LiveTrays # {}
    /\ relaunchClick("tray:Relaunch")

\* app menu "Relaunch"
MenuRelaunchClick ==
    /\ Alive
    /\ relaunchClick("menu:Relaunch")

\* tray menu "Quit Vencord Desktop": isQuitting = true; app.quit();
TrayQuitClick ==
    /\ Alive
    /\ LiveTrays # {}
    /\ isQuitting' = TRUE
    /\ appQuit
    /\ last' = Step("tray:Quit", {"before-quit"}, <<>>, <<"quit">>, FALSE)
    /\ UNCHANGED <<storeVars, trayVars, winState, visible, hiddenByClose, geomVars, chromeVars,
                   pending, relaunchRequested>>

\* app menu "Quit" (any of its three items): app.quit();
MenuQuitClick ==
    /\ Alive
    /\ appQuit
    /\ last' = Step("menu:Quit", {"before-quit"}, <<>>, <<"quit">>, FALSE)
    /\ UNCHANGED <<storeVars, trayVars, winState, visible, hiddenByClose, geomVars, chromeVars,
                   pending, relaunchRequested>>

\* before-quit dispatched for a quit begun outside this module
BeforeQuit ==
    /\ winState # "closed"
    /\ beforeQuit
    /\ last' = Step("before-quit", {"before-quit"}, <<>>, <<>>, FALSE)
    /\ UNCHANGED <<storeVars, trayVars, winState, visible, hiddenByClose, geomVars, chromeVars, appVars>>

\* ------------------------------------------------------ bounds persistence
\* mutation: only the first event is written, later ones are dropped
saveBounds_firstOnly(store, current) ==
    IF Has(store, "windowBounds") THEN store ELSE Put(store, "windowBounds", current)

\* saveBounds: Settings.store.windowBounds = win.getBounds()
saveBounds(store, current) == Put(store, "windowBounds", current)

\* saveState: both flags are read from the window
saveState(store, maximized, minimized) ==
    Put(Put(store, "maximized", maximized), "minimized", minimized)

\* the window is moved: "move" is dispatched
Move ==
    /\ Alive
    /\ \E x \in Positions, y \in Positions :
          /\ <<x, y>> # <<bounds.x, bounds.y>>
          /\ bounds' = [bounds EXCEPT !.x = x, !.y = y]
    /\ Settings' = saveBounds(Settings, bounds')
    /\ last' = Step("move", {"move"}, <<"windowBounds">>, <<>>, FALSE)
    /\ UNCHANGED <<VencordSettings, platform, isQuitting, trayVars, winState, visible, hiddenByClose,
                   minSize, isMaximized, isMinimized, chromeVars, appVars>>

\* the window is resized within its minimum size: "resize" is dispatched
Resize ==
    /\ Alive
    /\ \E w \in Widths, h \in Heights :
          /\ w >= minSize[1] /\ h >= minSize[2]
          /\ <<w, h>> # <<bounds.width, bounds.height>>
          /\ bounds' = [bounds EXCEPT !.width = w, !.height = h]
    /\ Settings' = saveBounds(Settings, bounds')
    /\ last' = Step("resize", {"resize"}, <<"windowBounds">>, <<>>, FALSE)
    /\ UNCHANGED <<VencordSettings, platform, isQuitting, trayVars, winState, visible, hiddenByClose,
                   minSize, isMaximized, isMinimized, chromeVars, appVars>>

\* a "maximize", "minimize" or "unmaximize" event: saveState runs
stateEvent(event) ==
    /\ Settings' = saveState(Settings, isMaximized', isMinimized')
    /\ last' = Step(event, {event}, <<"maximized", "minimized">>, <<>>, FALSE)
    /\ UNCHANGED <<VencordSettings, platform, isQuitting, trayVars, winState, visible, hiddenByClose,
                   bounds, minSize, chromeVars, appVars>>

Maximize ==
    /\ Alive
    /\ ~isMaximized
    /\ isMaximized' = TRUE
    /\ isMinimized' = isMinimized
    /\ stateEvent("maximize")

Unmaximize ==
    /\ Alive
    /\ isMaximized
    /\ isMaximized' = FALSE
    /\ isMinimized' = isMinimized
    /\ stateEvent("unmaximize")

\* mutation: the flags are taken from the event that fired, not from the window
Minimize_byEvent ==
    /\ Alive
    /\ ~isMinimized
    /\ isMinimized' = TRUE
    /\ isMaximized' = isMaximized
    /\ Settings' = saveState(Settings, FALSE, TRUE)
    /\ last' = Step("minimize", {"minimize"}, <<"maximized", "minimized">>, <<>>, FALSE)
    /\ UNCHANGED <<VencordSettings, platform, isQuitting, trayVars, winState, visible, hiddenByClose,
                   bounds, minSize, chromeVars, appVars>>

Minimize ==
    /\ Alive
    /\ ~isMinimized
    /\ isMinimized' = TRUE
    /\ isMaximized' = isMaximized
    /\ stateEvent("minimize")

\* a minimized window is restored: "restore" has no listener in this module
Restore ==
    /\ Alive
    /\ isMinimized
    /\ isMinimized' = FALSE
    /\ last' = Step("restore", {"restore"}, <<>>, <<>>, FALSE)
    /\ UNCHANGED <<storeVars, isQuitting, trayVars, winState, visible, hiddenByClose, bounds, minSize,
                   isMaximized, chromeVars, appVars>>

\* mutation: the size is set to the minimum instead of grown to it
grownToMinimum_reset(current) ==
    [current EXCEPT !.width = MIN_WIDTH, !.height = MIN_HEIGHT]

\* win.setBounds({width, height}) of the disableMinSize listener
grownToMinimum(current) ==
    [current EXCEPT !.width = Max(current.width, MIN_WIDTH),
                    !.height = Max(current.height, MIN_HEIGHT)]

\* mutation: the two branches of the listener are swapped
minimumSizeFor_swapped(disable) == IF disable THEN <<MIN_WIDTH, MIN_HEIGHT>> ELSE <<1, 1>>

\* win.setMinimumSize(...) of the disableMinSize listener
minimumSizeFor(disable) == IF disable THEN <<1, 1>> ELSE <<MIN_WIDTH, MIN_HEIGHT>>

\* Settings.store.disableMinSize = disable, with its change listener; a
\* setBounds that changes the size may dispatch "resize", depending on the
\* platform, and saveBounds then runs
SetDisableMinSize(disable) ==
    /\ Alive
    /\ Changed(Settings, "disableMinSize", disable)
    /\ minSize' = minimumSizeFor(disable)
    /\ bounds' = IF disable THEN bounds ELSE grownToMinimum(bounds)
    /\ \E dispatched \in Booleans :
          LET resized == bounds' # bounds /\ dispatched
              written == Put(Settings, "disableMinSize", disable)
          IN /\ Settings' = IF resized THEN saveBounds(written, bounds') ELSE written
             /\ last' = Step("set:disableMinSize",
                             IF resized THEN {"resize"} ELSE {},
                             IF resized THEN <<"disableMinSize", "windowBounds">>
                                        ELSE <<"disableMinSize">>,
                             <<>>, FALSE)
    /\ UNCHANGED <<VencordSettings, platform, isQuitting, trayVars, winState, visible, hiddenByClose,
                   isMaximized, isMinimized, chromeVars, appVars>>

\* ------------------------------------------------------------ window chrome
\* mutation: turning translucency off leaves the transparent background
translucencyFor_keepsBackground(enabled) ==
    IF enabled THEN [vibrancy |-> "sidebar", backgroundColor |-> "#ffffff00"]
               ELSE [vibrancy |-> "none", backgroundColor |-> "#ffffff00"]

\* the macosTranslucency listener: setVibrancy and setBackgroundColor
translucencyFor(enabled) ==
    IF enabled THEN [vibrancy |-> "sidebar", backgroundColor |-> "#ffffff00"]
               ELSE [vibrancy |-> "none", backgroundColor |-> "#ffffff"]

\* VencordSettings.store.macosTranslucency = enabled, with its change listener
SetMacosTranslucency(enabled) ==
    /\ Alive
    /\ Changed(VencordSettings, "macosTranslucency", enabled)
    /\ VencordSettings' = Put(VencordSettings, "macosTranslucency", enabled)
    /\ vibrancy' = translucencyFor(enabled).vibrancy
    /\ backgroundColor' = translucencyFor(enabled).backgroundColor
    /\ last' = Step("set:macosTranslucency", {}, <<"macosTranslucency">>, <<>>, FALSE)
    /\ UNCHANGED <<Settings, platform, isQuitting, trayVars, winState, visible, hiddenByClose, geomVars,
                   winOptions, title, titleLocked, menu, loadedURL, appVars>>

\* Settings.store.staticTitle = value: no listener in this module
SetStaticTitle(value) ==
    /\ Alive
    /\ Changed(Settings, "staticTitle", value)
    /\ Settings' = Put(Settings, "staticTitle", value)
    /\ last' = Step("set:staticTitle", {}, <<"staticTitle">>, <<>>, FALSE)
    /\ UNCHANGED <<VencordSettings, platform, isQuitting, trayVars, winState, visible, hiddenByClose,
                   geomVars, chromeVars, appVars>>

\* titles the loaded page announces
PageTitles == {"Discord", "Friends"}

\* mutation: the handler consults the setting on every event
titleUpdatePrevented_live == Truthy(Settings, "staticTitle")

\* whether a page-title-updated event meets a listener that cancels it
titleUpdatePrevented == titleLocked

\* the page announces a title: unless cancelled, it becomes the window's
PageTitleUpdated ==
    /\ Alive
    /\ \E announced \in PageTitles :
          title' = IF titleUpdatePrevented THEN title ELSE announced
    /\ last' = Step("page-title-updated", {"page-title-updated"}, <<>>, <<>>,
                    titleUpdatePrevented)
    /\ UNCHANGED <<storeVars, isQuitting, trayVars, winState, visible, hiddenByClose, geomVars,
                   winOptions, titleLocked, vibrancy, backgroundColor, menu, loadedURL,
                   appVars>>

\* ------------------------------------------------------ the state machine
\* the module as loaded, before createMainWindow
Loaded ==
    /\ isQuitting = FALSE
    /\ tray = 0
    /\ trays = <<>>
    /\ winState = "none"
    /\ visible = FALSE
    /\ hiddenByClose = FALSE
    /\ bounds = NoBounds
    /\ minSize = NoMinSize
    /\ isMaximized = FALSE
    /\ isMinimized = FALSE
    /\ winOptions = <<>>
    /\ title = ""
    /\ titleLocked = FALSE
    /\ vibrancy = "none"
    /\ backgroundColor = OpaqueBackground
    /\ menu = <<>>
    /\ loadedURL = ""
    /\ pending = 0
    /\ relaunchRequested = FALSE
    /\ quitCalled = FALSE
    /\ last = Step("load", {}, <<>>, <<>>, FALSE)

\* tray, close and quit lifecycle, from every persisted tray configuration
SavedBounds == [x |-> 0, y |-> 0, width |-> DEFAULT_WIDTH, height |-> DEFAULT_HEIGHT]

Init ==
    /\ \E flags \in Stores({"tray", "minimizeToTray"}) :
          Settings = Put(flags, "windowBounds", SavedBounds)
    /\ VencordSettings = <<>>
    /\ platform = "linux"
    /\ Loaded

Next ==
    \/ CreateMainWindow
    \/ \E enable \in Booleans : SetTray(enable)
    \/ \E value \in Booleans : SetMinimizeToTray(value)
    \/ ShowWindow
    \/ TrayClick
    \/ TrayOpenClick
    \/ TrayUpdateClick
    \/ MenuUpdateClick
    \/ DownloadResolve
    \/ DownloadReject
    \/ TrayRelaunchClick
    \/ MenuRelaunchClick
    \/ TrayQuitClick
    \/ MenuQuitClick
    \/ BeforeQuit
    \/ CloseRequest

Spec == Init /\ [][Next]_vars

\* window geometry and its persistence, from every persisted geometry
AllBounds == [x : Positions, y : Positions, width : Widths, height : Heights]

InitBounds ==
    /\ \E flags \in Stores({"disableMinSize"}) :
          \/ Settings = flags
          \/ \E saved \in AllBounds : Settings = Put(flags, "windowBounds", saved)
    /\ VencordSettings = <<>>
    /\ platform = "linux"
    /\ Loaded

NextBounds ==
    \/ CreateMainWindow
    \/ Move
    \/ Resize
    \/ \E disable \in Booleans : SetDisableMinSize(disable)

SpecBounds == InitBounds /\ [][NextBounds]_vars

\* maximized and minimized state and its persistence, from every persisted state
InitWindowState ==
    /\ Settings \in Stores({"maximized", "minimized"})
    /\ VencordSettings = <<>>
    /\ platform = "linux"
    /\ Loaded

NextWindowState ==
    \/ CreateMainWindow
    \/ Maximize
    \/ Unmaximize
    \/ Minimize
    \/ Restore
    \/ Move

SpecWindowState == InitWindowState /\ [][NextWindowState]_vars

\* window chrome, from every persisted title and translucency option
InitChrome ==
    /\ \E flags \in Stores({"staticTitle"}) :
          Settings = Put(flags, "windowBounds", SavedBounds)
    /\ VencordSettings \in Stores({"macosTranslucency", "frameless"})
    /\ platform = "darwin"
    /\ Loaded

NextChrome ==
    \/ CreateMainWindow
    \/ \E enabled \in Booleans : SetMacosTranslucency(enabled)
    \/ \E value \in Booleans : SetStaticTitle(value)
    \/ PageTitleUpdated

SpecChrome == InitChrome /\ [][NextChrome]_vars

\* construction, from every persisted geometry (whole, partial or absent),
\* branch, platform and winCtrlQ option
BoundsKeys == {"x", "y", "width", "height"}

ValuesOf(key) ==
    IF key = "width" THEN Widths ELSE IF key = "height" THEN Heights ELSE Positions

PartialBounds ==
    UNION {{saved \in [present -> Widths \cup Heights \cup Positions] :
               \A key \in present : saved[key] \in ValuesOf(key)} :
           present \in SUBSET BoundsKeys}

Branches == {"stable", "canary", "ptb", "development"}

Platforms == {"win32", "linux", "darwin"}

InitConstruct ==
    /\ \E geometry \in {<<>>} \cup {[windowBounds |-> saved] : saved \in PartialBounds} :
          \/ Settings = geometry
          \/ \E branch \in Branches : Settings = Put(geometry, "discordBranch", branch)
    /\ VencordSettings \in Stores({"winCtrlQ"})
    /\ platform \in Platforms
    /\ Loaded

NextConstruct == CreateMainWindow

SpecConstruct == InitConstruct /\ [][NextConstruct]_vars

\* ---------------------------------------------------------------- claims
Created == winState # "none"

TrayEnabled == OrDefault(Settings, "tray", TRUE)

\* C1: after createMainWindow, a live tray icon exists if and only if the
\* tray setting (absent counting as true) is currently true.
C1_TrayExistsIffEnabled == Created => (LiveTrays # {} <=> TrayEnabled)

\* C2: a close request is cancelled and the window hidden, staying alive,
\* exactly when the quit flag is false and neither minimizeToTray nor tray
\* is false; otherwise the close proceeds and the handler hides nothing.
C2_ClosePolicy ==
    [][last'.op = "close" =>
        LET hideCase == /\ ~isQuitting
                        /\ ~IsFalse(Settings, "minimizeToTray")
                        /\ ~IsFalse(Settings, "tray")
        IN /\ hideCase <=> (last'.prevented /\ ~visible' /\ winState' = "alive")
           /\ ~hideCase => /\ winState' = "closed"
                           /\ ~last'.prevented
                           /\ visible' = visible
                           /\ "hide" \notin last'.events]_vars

C2_Witness ==
    /\ last.op = "close"
    /\ last.prevented
    /\ "hide" \in last.events
    /\ ~visible
    /\ Alive

C4_OpenEnabledIffHidden ==
    (Alive /\ tray \in LiveTrays) => (trays[tray].openEnabled <=> ~visible)

\* C5: right after the handlers of a show or hide event have run, the Open
\* item of every live tray's menu is enabled iff the window is not visible.
C5_OpenSyncedAfterEvent ==
    [][("show" \in last'.events \/ "hide" \in last'.events) =>
        \A i \in LiveTrays' : trays'[i].openEnabled <=> ~visible']_vars

C5_Witness ==
    /\ "hide" \in last.events
    /\ tray \in LiveTrays
    /\ trays[tray].openEnabled
    /\ ~visible

\* C6: the quit flag starts false, rises only in a step that begins shutdown
\* (before-quit dispatched, or the tray Quit click), and never falls.
C6_QuitFlagOneWay ==
    /\ ~isQuitting
    /\ [][/\ isQuitting => isQuitting'
          /\ (~isQuitting /\ isQuitting') =>
                ("before-quit" \in last'.events \/ last'.op = "tray:Quit")]_vars

C6_Witness ==
    /\ isQuitting
    /\ last.op = "set:tray"

Times(seq, key) == Cardinality({i \in 1..Len(seq) : seq[i] = key})

BoundsEvent(step) == "move" \in step.events \/ "resize" \in step.events

\* C7: every move and every resize event writes windowBounds exactly once,
\* with the window's bounds at that moment, and nothing else writes it: the
\* persisted bounds are those of the most recent such event.
C7_BoundsWriteThrough ==
    [][/\ BoundsEvent(last') =>
            /\ Times(last'.writes, "windowBounds") = 1
            /\ Holds(Settings', "windowBounds", bounds')
       /\ ~BoundsEvent(last') =>
            /\ Times(last'.writes, "windowBounds") = 0
            /\ Has(Settings', "windowBounds") = Has(Settings, "windowBounds")
            /\ Has(Settings, "windowBounds") =>
                  Holds(Settings', "windowBounds", Settings["windowBounds"])]_vars

C7_Witness ==
    /\ last.op = "resize"
    /\ Holds(Settings, "windowBounds", bounds)
    /\ bounds.width < MIN_WIDTH
    /\ bounds.x = MaxPos

\* C8: a maximize, minimize or unmaximize event writes both flags in one
\* step, each with the window's queried state, and leaves windowBounds alone.
C8_StateFlagsFromWindow ==
    [][last'.op \in {"maximize", "minimize", "unmaximize"} =>
        /\ last'.writes = <<"maximized", "minimized">>
        /\ Holds(Settings', "maximized", isMaximized')
        /\ Holds(Settings', "minimized", isMinimized')
        /\ Has(Settings', "windowBounds") = Has(Settings, "windowBounds")
        /\ Has(Settings, "windowBounds") =>
              Holds(Settings', "windowBounds", Settings["windowBounds"])]_vars

C8_Witness ==
    /\ last.op = "minimize"
    /\ isMaximized
    /\ Holds(Settings, "maximized", TRUE)
    /\ Holds(Settings, "minimized", TRUE)
    /\ Has(Settings, "windowBounds")

\* C9: when disableMinSize changes to false, a dimension below the minimum
\* becomes exactly the minimum and a dimension at or above it is kept.
C9_GrowsToMinimum ==
    [][(last'.op = "set:disableMinSize" /\ IsFalse(Settings', "disableMinSize")) =>
        /\ bounds.width < MIN_WIDTH => bounds'.width = MIN_WIDTH
        /\ bounds.width >= MIN_WIDTH => bounds'.width = bounds.width
        /\ bounds.height < MIN_HEIGHT => bounds'.height = MIN_HEIGHT
        /\ bounds.height >= MIN_HEIGHT => bounds'.height = bounds.height]_vars

C9_Witness ==
    /\ last.op = "set:disableMinSize"
    /\ IsFalse(Settings, "disableMinSize")
    /\ last.events = {}
    /\ Has(Settings, "windowBounds")
    /\ Settings["windowBounds"].width < MIN_WIDTH
    /\ Settings["windowBounds"].height > MIN_HEIGHT
    /\ bounds.width = MIN_WIDTH
    /\ bounds.height > MIN_HEIGHT

\* C10: the window's minimum size is (MIN_WIDTH, MIN_HEIGHT) exactly when
\* disableMinSize is not true, and absent or (1, 1) exactly when it is true.
C10_MinSizeTracksSetting ==
    Alive => IF Truthy(Settings, "disableMinSize")
             THEN minSize \in {NoMinSize, <<1, 1>>}
             ELSE minSize = <<MIN_WIDTH, MIN_HEIGHT>>

C10_Witness ==
    /\ Alive
    /\ last.op = "set:disableMinSize"
    /\ IsFalse(Settings, "disableMinSize")
    /\ minSize = <<MIN_WIDTH, MIN_HEIGHT>>
    /\ bounds.width > MIN_WIDTH
\* C11: after construction and any sequence of macosTranslucency changes,
\* the window has vibrancy "sidebar" and background "#ffffff00" if the
\* latest value is true, and no vibrancy and an opaque background otherwise.
C11_TranslucencyLastWriteWins ==
    Alive => IF Truthy(VencordSettings, "macosTranslucency")
             THEN vibrancy = "sidebar" /\ backgroundColor = "#ffffff00"
             ELSE vibrancy = "none" /\ backgroundColor = "#ffffff"

C11_Witness ==
    /\ Alive
    /\ last.op = "set:macosTranslucency"
    /\ IsFalse(VencordSettings, "macosTranslucency")
    /\ Has(winOptions, "vibrancy")
    /\ vibrancy = "none"
    /\ backgroundColor = "#ffffff"
SavedWindowBounds == OrDefault(Settings, "windowBounds", <<>>)

\* C12: the constructor gets the persisted x and y when both are present and
\* neither when either is absent; width and height are the persisted values
\* when present and DEFAULT_WIDTH / DEFAULT_HEIGHT otherwise.
C12_InitialGeometry ==
    Created =>
        /\ IF Has(SavedWindowBounds, "x") /\ Has(SavedWindowBounds, "y")
           THEN /\ Holds(winOptions, "x", SavedWindowBounds["x"])
                /\ Holds(winOptions, "y", SavedWindowBounds["y"])
           ELSE ~Has(winOptions, "x") /\ ~Has(winOptions, "y")
        /\ IF Has(SavedWindowBounds, "width")
           THEN Holds(winOptions, "width", SavedWindowBounds["width"])
           ELSE Holds(winOptions, "width", DEFAULT_WIDTH)
        /\ IF Has(SavedWindowBounds, "height")
           THEN Holds(winOptions, "height", SavedWindowBounds["height"])
           ELSE Holds(winOptions, "height", DEFAULT_HEIGHT)

C12_Witness ==
    /\ Created
    /\ Has(SavedWindowBounds, "x")
    /\ ~Has(SavedWindowBounds, "y")
    /\ Has(SavedWindowBounds, "width")
    /\ ~Has(SavedWindowBounds, "height")
    /\ ~Has(winOptions, "x")
    /\ Holds(winOptions, "width", MIN_WIDTH - MaxDelta)
    /\ Holds(winOptions, "height", DEFAULT_HEIGHT)
\* C13: the loaded URL is https://canary.discord.com/app for branch canary,
\* https://ptb.discord.com/app for ptb, and https://discord.com/app for
\* every other value and for an absent branch.
C13_BranchURL ==
    Created =>
        loadedURL = IF Holds(Settings, "discordBranch", "canary")
                    THEN "https://canary.discord.com/app"
                    ELSE IF Holds(Settings, "discordBranch", "ptb")
                         THEN "https://ptb.discord.com/app"
                         ELSE "https://discord.com/app"

C13_Witness ==
    /\ Created
    /\ Holds(Settings, "discordBranch", "ptb")
    /\ loadedURL = "https://ptb.discord.com/app"
StaticAtConstruction == Has(winOptions, "title")

\* C14: staticTitle is resolved once, when createMainWindow runs: if it was
\* true the title is "Vencord" in every later state and every
\* page-title-updated event is cancelled; if it was not, none is cancelled;
\* later changes of staticTitle alter neither.
C14_StaticTitleResolvedOnce ==
    /\ []((Alive /\ StaticAtConstruction) => title = "Vencord")
    /\ [][/\ last'.op = "createMainWindow" =>
                (StaticAtConstruction' <=> Truthy(Settings, "staticTitle"))
          /\ last'.op = "page-title-updated" =>
                /\ last'.prevented <=> StaticAtConstruction
                /\ last'.prevented => title' = title
                /\ ~last'.prevented => title' \in PageTitles]_vars

C14_Witness ==
    /\ last.op = "page-title-updated"
    /\ last.prevented
    /\ IsFalse(Settings, "staticTitle")
    /\ title = "Vencord"

QuitItems(shown) ==
    {i \in 1..Len(menu) : menu[i].label = "Quit" /\ menu[i].visible = shown}

\* C15 as stated (opting out read as winCtrlQ being false): off Windows the
\* one visible Quit item is bound to CmdOrCtrl+Q unless the setting opts out,
\* and then has no accelerator, with a hidden Quit item on CmdOrCtrl+Q; on
\* Windows the one visible Quit item is bound to Alt+F4.
C15_QuitItemsAsStated ==
    Created =>
        /\ Cardinality(QuitItems(TRUE)) = 1
        /\ \A i \in QuitItems(TRUE) :
              menu[i].accelerator =
                  IF platform = "win32" THEN "Alt+F4"
                  ELSE IF IsFalse(VencordSettings, "winCtrlQ") THEN "none"
                       ELSE "CmdOrCtrl+Q"
        /\ platform # "win32" =>
              \E i \in QuitItems(FALSE) : menu[i].accelerator = "CmdOrCtrl+Q"

\* C15 amended: off Windows the one visible Quit item is bound to
\* CmdOrCtrl+Q whatever winCtrlQ is, with a hidden Quit item on CmdOrCtrl+Q;
\* on Windows the one visible Quit item is bound to Alt+F4, and winCtrlQ
\* decides only whether a hidden Quit item is left without accelerator.
C15_QuitItems ==
    Created =>
        /\ Cardinality(QuitItems(TRUE)) = 1
        /\ \A i \in QuitItems(TRUE) :
              menu[i].accelerator = IF platform = "win32" THEN "Alt+F4" ELSE "CmdOrCtrl+Q"
        /\ \E i \in QuitItems(FALSE) : menu[i].accelerator = "CmdOrCtrl+Q"
        /\ platform = "win32" =>
              ((\E i \in QuitItems(FALSE) : menu[i].accelerator = "none")
                  <=> ~Truthy(VencordSettings, "winCtrlQ"))

C15_Witness ==
    /\ Created
    /\ platform = "linux"
    /\ IsFalse(VencordSettings, "winCtrlQ")
    /\ \E i \in QuitItems(TRUE) : menu[i].accelerator = "CmdOrCtrl+Q"
\* C16: at most one tray is live at any time and the module's tray
\* reference designates it (initTray never runs while a tray is live).
C16_SingleLiveTray ==
    /\ Cardinality(LiveTrays) <= 1
    /\ LiveTrays # {} => tray \in LiveTrays

\* C17: once the quit flag is set, every close request proceeds: it is not
\* cancelled and hides nothing, whatever tray and minimizeToTray are and
\* whether or not the window is hidden.
C17_CloseAfterQuitProceeds ==
    [][(isQuitting /\ last'.op = "close") =>
        /\ winState' = "closed"
        /\ ~last'.prevented
        /\ "hide" \notin last'.events
        /\ visible' = visible]_vars

C17_Witness ==
    /\ isQuitting
    /\ last.op = "close"
    /\ winState = "closed"
    /\ ~visible
    /\ ~IsFalse(Settings, "tray")
    /\ ~IsFalse(Settings, "minimizeToTray")
    /\ quitCalled

UpdateClicks == {"tray:Update", "menu:Update"}

\* C20: an Update click requests neither relaunch nor quit and leaves the
\* quit flag alone until its download completes; a close request arriving
\* or a tray setting change arriving while a download is pending is handled
\* as usual; when the download resolves, relaunch is requested before quit.
C20_UpdateDefersRelaunch ==
    [][/\ last'.op \in UpdateClicks =>
            /\ last'.calls = <<>>
            /\ pending' = pending + 1
            /\ UNCHANGED <<relaunchRequested, quitCalled, isQuitting>>
       /\ (pending > 0 /\ last'.op = "close") =>
            (last'.prevented <=> ~(isQuitting \/ IsFalse(Settings, "minimizeToTray")
                                    \/ IsFalse(Settings, "tray")))
       /\ (pending > 0 /\ last'.op = "set:tray") =>
            /\ UNCHANGED <<pending, relaunchRequested, quitCalled, isQuitting>>
            /\ Truthy(Settings', "tray") => Len(trays') = Len(trays) + 1
            /\ IsFalse(Settings', "tray") => (tray = 0 \/ trays'[tray].destroyed)
       /\ last'.op = "update:resolved" =>
            /\ pending' = pending - 1
            /\ last'.calls = <<"relaunch", "quit">>]_vars

C20_Witness ==
    /\ pending > 0
    /\ last.op = "close"
    /\ last.prevented
    /\ ~relaunchRequested
    /\ ~quitCalled
    /\ ~isQuitting
\* C18: whenever the window is hidden because a close request was cancelled
\* and the application is not quitting, a live tray icon exists.
C18_HiddenWindowHasTray ==
    (Alive /\ hiddenByClose /\ ~visible /\ ~isQuitting) => LiveTrays # {}
StateEvents == {"maximize", "unmaximize", "minimize", "restore"}

\* C19: after a maximize, unmaximize, minimize or restore event (each of
\* which follows at least one write of the flags), the persisted maximized
\* and minimized flags equal the window's maximized and minimized state.
C19_PersistedStateMatchesWindow ==
    last.op \in StateEvents =>
        /\ Holds(Settings, "maximized", isMaximized)
        /\ Holds(Settings, "minimized", isMinimized)
====
